---- MODULE Spec2Model ----
\* A model of go-serum: the canonical error record (*ErrorValue), the
\* capability-probed accessors, construction and standardization, the Is
\* predicate with the host's unwrap-aware traversal, and the JSON codec.
\*
\* Error values live in a heap (a sequence of objects) and are referred to by
\* address, so that reference identity, nil interfaces and typed-nil pointers
\* are observable exactly as they are in Go.
EXTENDS Integers, Sequences, FiniteSets, TLC

VARIABLES heap, last

vars == <<heap, last>>

\* ---------------------------------------------------------------- bounds

\* The heap holds at most MaxHeap retained error values.
MaxHeap == 5

\* The caller supplies at most MaxForeign values of its own making (foreign
\* errors and hand-written records) before it calls the package.
MaxForeign == 2

\* The codec and equality scenarios construct at most MaxRecords records.
MaxRecords == 2

\* ------------------------------------------------------- interface values

\* A nil interface value (no error / no cause).
Nil == 0

\* A non-nil interface value that holds a nil *ErrorValue pointer.
TypedNil == -1

\* ------------------------------------------------------------ Go types

\* The dynamic types of the error values of the model:
\*   ErrorValue   *serum.ErrorValue, the canonical record
\*   errorString  *errors.errorString, what errors.New returns
\*   wrapError    *fmt.wrapError, what fmt.Errorf returns for a %w pattern
\*   ValueError   a foreign error whose type is not a pointer (a named string)
\*   CustomError  a foreign pointer type that implements the serum interfaces
\*   MapError     a foreign pointer type with a code and a details map
GoTypes ==
  {"ErrorValue", "errorString", "wrapError", "ValueError", "CustomError", "MapError"}

\* reflect.Type.Elem is defined for pointer types and panics for a string kind.
IsPointerType(t) == t # "ValueError"

\* path.Base(rt.PkgPath()) of the pointed-to type.
PkgBase(t) ==
  CASE t = "ErrorValue" -> "serum"
    [] t = "errorString" -> "errors"
    [] t = "wrapError" -> "fmt"
    [] OTHER -> "app"

\* The capability interfaces of part_002: which method sets a type has.
ErrorInterface(t) == t \in {"ErrorValue", "CustomError", "MapError"}

ErrorInterfaceWithMessage(t) == t \in {"ErrorValue", "CustomError"}

ErrorInterfaceWithDetailsOrdered(t) == t \in {"ErrorValue", "CustomError"}

ErrorInterfaceWithCause(t) == t \in {"ErrorValue", "CustomError"}

ErrorInterfaceWithDetailsMap(t) == t = "MapError"

\* interface{ Unwrap() error }, as errors.Unwrap and errors.Is probe it.
HasUnwrap(t) == t \in {"ErrorValue", "CustomError", "wrapError"}

\* interface{ Is(error) bool }: only *ErrorValue defines Is.
HasIs(t) == t = "ErrorValue"

\* ------------------------------------------------------------- objects

\* An object of the heap. code, msg, details and cause are the Data fields of
\* an ErrorValue (or what a CustomError's methods return); text is the
\* Error() string of a foreign error without the code capability. alloc tells
\* a details slice that is not nil from the nil slice: a slice that holds rows
\* is not nil, and an empty one is nil unless it was made so ([][2]string{}).
\* A MapError keeps the entries of its map in details, sorted by key.
Object(t, c, m, d, ca, tx) ==
  [type |-> t, code |-> c, msg |-> m, details |-> d, cause |-> ca, text |-> tx,
   alloc |-> d # <<>>]

\* &ErrorValue{Data{Code, Message, Details, Cause}}
ErrorValue(c, m, d, ca) == Object("ErrorValue", c, m, d, ca, "")

Addrs(h) == 1..Len(h)

\* The outcome of a call that may panic.
Panic == [ok |-> FALSE, val |-> ""]

Ret(v) == [ok |-> TRUE, val |-> v]

\* ----------------------------------------------------------- accessors

\* "bestguess-golang-" + path.Base(rt.PkgPath()) + "-" + rt.Name()
BestGuessCode(t) == "bestguess-golang-" \o PkgBase(t) \o "-" \o t

\* serum.Code. A nil interface has no type (reflect.TypeOf(nil).Elem() panics),
\* a typed-nil *ErrorValue panics inside its Code method, and a value without
\* the code capability has its type name read through reflect's Elem, which
\* panics unless the type is a pointer.
Code(h, a) ==
  IF a = Nil \/ a = TypedNil THEN Panic
  ELSE IF ErrorInterface(h[a].type)
    THEN (IF h[a].code = "" THEN Ret("?!") ELSE Ret(h[a].code))
  ELSE IF IsPointerType(h[a].type) THEN Ret(BestGuessCode(h[a].type))
  ELSE Panic

\* serum.Message: the message capability's value, empty when the value has none.
Message(h, a) ==
  IF a = TypedNil THEN Panic
  ELSE IF a = Nil THEN Ret("")
  ELSE IF ErrorInterfaceWithMessage(h[a].type) THEN Ret(h[a].msg)
  ELSE Ret("")

\* serum.Cause: the value's Unwrap result, nil when it has no Unwrap.
Cause(h, a) ==
  IF a = Nil \/ a = TypedNil THEN Nil
  ELSE IF HasUnwrap(h[a].type) THEN h[a].cause
  ELSE Nil

\* The keys the scenarios use, in the order of Go's string comparison.
KeysInOrder == <<"", "j", "k">>

KeyRank(k) == CHOOSE i \in 1..Len(KeysInOrder) : KeysInOrder[i] = k

\* pairs.Less: rows compare by their keys.
Less(x, y) == KeyRank(x[1]) < KeyRank(y[1])

RECURSIVE insertPair(_, _)
\* One row put in its place in a sorted slice.
insertPair(row, sorted) ==
  IF sorted = <<>> THEN <<row>>
  ELSE IF Less(row, Head(sorted)) THEN <<row>> \o sorted
  ELSE <<Head(sorted)>> \o insertPair(row, Tail(sorted))

RECURSIVE sortPairs(_)
\* sort.Sort(pairs(l)): the rows of l in ascending key order. The keys of a
\* map are distinct and the zero rows are all alike, so the order is fixed.
sortPairs(l) ==
  IF l = <<>> THEN <<>> ELSE insertPair(Head(l), sortPairs(Tail(l)))

\* serum.Details: the rows of the ordered-details capability; for the
\* details-map capability a slice made with len(m) zero rows, the entries of
\* the map appended to it, then sorted by key; nil (the empty sequence) for a
\* value with neither.
Details(h, a) ==
  IF a = Nil \/ a = TypedNil THEN <<>>
  ELSE IF ErrorInterfaceWithDetailsOrdered(h[a].type) THEN h[a].details
  ELSE IF ErrorInterfaceWithDetailsMap(h[a].type)
    THEN sortPairs([i \in 1..Len(h[a].details) |-> <<"", "">>] \o h[a].details)
  ELSE <<>>

\* Whether serum.Details returns the nil slice.
DetailsIsNil(h, a) ==
  IF a = Nil \/ a = TypedNil THEN TRUE
  ELSE IF ErrorInterfaceWithDetailsOrdered(h[a].type) THEN ~h[a].alloc
  ELSE IF ErrorInterfaceWithDetailsMap(h[a].type) THEN FALSE
  ELSE TRUE

\* A Go map[string]string: a function from its keys to their values.
EmptyMap == [k \in {} |-> ""]

\* m[k], the zero value "" when k is not a key of m.
MapIndex(m, k) == IF k \in DOMAIN m THEN m[k] ELSE ""

RECURSIVE MapFromRows(_, _)
\* for _, ent := range l { m[ent[0]] = ent[1] }: a later row overwrites an
\* earlier one with the same key.
MapFromRows(l, m) ==
  IF l = <<>> THEN m
  ELSE MapFromRows(Tail(l),
                   [k \in DOMAIN m \cup {Head(l)[1]} |->
                      IF k = Head(l)[1] THEN Head(l)[2] ELSE m[k]])

\* serum.DetailsMap: the map of the details-map capability as it is; for the
\* ordered capability a map filled from the rows; else the empty map.
DetailsMap(h, a) ==
  IF a = Nil \/ a = TypedNil THEN EmptyMap
  ELSE IF ErrorInterfaceWithDetailsMap(h[a].type) THEN MapFromRows(h[a].details, EmptyMap)
  ELSE IF ErrorInterfaceWithDetailsOrdered(h[a].type) THEN MapFromRows(h[a].details, EmptyMap)
  ELSE EmptyMap

RECURSIVE firstMatch(_, _)
\* The value of the first row of l whose key is k, "" when there is none.
firstMatch(l, k) ==
  IF l = <<>> THEN ""
  ELSE IF Head(l)[1] = k THEN Head(l)[2]
  ELSE firstMatch(Tail(l), k)

\* serum.Detail: the map's value at the key for the details-map capability;
\* for the ordered capability the value of the first row with that key.
Detail(h, a, whichDetail) ==
  IF a = Nil \/ a = TypedNil THEN ""
  ELSE IF ErrorInterfaceWithDetailsMap(h[a].type)
    THEN MapIndex(MapFromRows(h[a].details, EmptyMap), whichDetail)
  ELSE IF ErrorInterfaceWithDetailsOrdered(h[a].type)
    THEN firstMatch(h[a].details, whichDetail)
  ELSE ""

RECURSIVE SynthesizeString(_, _)
RECURSIVE ErrorString(_, _)

\* A display string that lists the details after the message.
SynthesizeStringWithDetails(h, a) ==
  IF a = TypedNil THEN Panic
  ELSE
    LET o == h[a]
        withMsg == IF ErrorInterfaceWithMessage(o.type) /\ o.msg # ""
                   THEN o.code \o ": " \o o.msg
                   ELSE o.code
        withDetails == IF o.details # <<>>
                       THEN withMsg \o " " \o o.details[1][1] \o "=" \o o.details[1][2]
                       ELSE withMsg
    IN IF ErrorInterfaceWithCause(o.type) /\ o.cause # Nil
       THEN LET c == ErrorString(h, o.cause)
            IN IF c.ok THEN Ret(withDetails \o ": caused by: " \o c.val) ELSE Panic
       ELSE Ret(withDetails)

\* serum.SynthesizeString: "{code}[: {message}][: caused by: {cause}]", the
\* code read by the value's own Code method and the cause by its Error method.
SynthesizeString(h, a) ==
  IF a = TypedNil THEN Panic
  ELSE
    LET o == h[a]
        withMsg == IF ErrorInterfaceWithMessage(o.type) /\ o.msg # ""
                   THEN o.code \o ": " \o o.msg
                   ELSE o.code
    IN IF ErrorInterfaceWithCause(o.type) /\ o.cause # Nil
       THEN LET c == ErrorString(h, o.cause)
            IN IF c.ok THEN Ret(withMsg \o ": caused by: " \o c.val) ELSE Panic
       ELSE Ret(withMsg)

\* The Error() method of a value: ErrorValue.Error is SynthesizeString (and so
\* is a serum-style custom type's); any other error returns its own text.
ErrorString(h, a) ==
  IF a = TypedNil THEN Panic
  ELSE IF ErrorInterface(h[a].type) THEN SynthesizeString(h, a)
  ELSE Ret(h[a].text)

\* ------------------------------------------------------------ templates

\* A template source is a sequence of one-character strings.
RECURSIVE Str(_)
Str(cs) == IF cs = <<>> THEN "" ELSE Head(cs) \o Str(Tail(cs))

\* strings.Index(s, mm) for a two-character marker, as a 1-based position
\* (0 when absent).
Index2(s, c) ==
  LET hits == {i \in 1..(Len(s) - 1) : s[i] = c /\ s[i + 1] = c}
  IN IF hits = {} THEN 0 ELSE CHOOSE i \in hits : \A j \in hits : i <= j

RECURSIVE TrimLeft(_)
TrimLeft(s) == IF s # <<>> /\ Head(s) = " " THEN TrimLeft(Tail(s)) ELSE s

RECURSIVE TrimRight(_)
TrimRight(s) ==
  IF s # <<>> /\ s[Len(s)] = " " THEN TrimRight(SubSeq(s, 1, Len(s) - 1)) ELSE s

\* strings.TrimSpace
TrimSpace(s) == TrimRight(TrimLeft(s))

\* A segment of a parsed template.
parsed(l, i) == [literal |-> l, interp |-> i]

RECURSIVE parse(_)
\* template.go parse: the segments of a template string.
parse(s) ==
  LET p == Index2(s, "{")
      rest == SubSeq(s, p + 2, Len(s))
      q == Index2(rest, "}")
  IN IF p = 0 THEN <<parsed(Str(s), "")>>
     ELSE IF q = 0 THEN <<parsed(Str(s), "")>>
     ELSE
       LET before == IF p > 1 THEN <<parsed(Str(SubSeq(s, 1, p - 1)), "")>> ELSE <<>>
           marker == IF q > 1
                     THEN <<parsed("", Str(TrimSpace(SubSeq(rest, 1, q - 1))))>>
                     ELSE <<parsed(Str(SubSeq(s, p, p + 3)), "")>>
           after == SubSeq(rest, q + 2, Len(rest))
       IN IF after = <<>> THEN before \o marker
          ELSE before \o marker \o parse(after)

\* A lookup that renders nothing for a key without a row.
LookupBlank(table, k) ==
  LET hits == {i \in 1..Len(table) : table[i][1] = k}
  IN IF hits = {} THEN ""
     ELSE table[CHOOSE i \in hits : \A j \in hits : i <= j][2]

\* A lookup that takes the last row with the key, as a map filled from the
\* table would.
LookupLastMatch(table, k) ==
  LET hits == {i \in 1..Len(table) : table[i][1] = k}
  IN IF hits = {} THEN "{{" \o k \o "}}"
     ELSE table[CHOOSE i \in hits : \A j \in hits : i >= j][2]

\* The value of the first row of the table whose key is k, or the marker text.
Lookup(table, k) ==
  LET hits == {i \in 1..Len(table) : table[i][1] = k}
  IN IF hits = {} THEN "{{" \o k \o "}}"
     ELSE table[CHOOSE i \in hits : \A j \in hits : i <= j][2]

RECURSIVE interpolate(_, _)
\* template.go interpolate: renders segments against an ordered table.
interpolate(ps, table) ==
  IF ps = <<>> THEN ""
  ELSE LET seg == Head(ps)
           out == (IF seg.literal # "" THEN seg.literal ELSE "")
                  \o (IF seg.interp # "" THEN Lookup(table, seg.interp) ELSE "")
       IN out \o interpolate(Tail(ps), table)

\* -------------------------------------------- construction, standardization

\* The outcome of a call that may allocate: the heap after it and its value.
Alloc(h, v) == [ok |-> TRUE, heap |-> h, val |-> v]

AllocPanic(h) == [ok |-> FALSE, heap |-> h, val |-> Nil]

\* Standardize with the cause kept as it is (no recursive coercion).
StandardizeShallow(h, other) ==
  IF other = Nil THEN Alloc(h, Nil)
  ELSE IF other = TypedNil \/ h[other].type = "ErrorValue" THEN Alloc(h, other)
  ELSE LET code == Code(h, other)
           msg == Message(h, other)
       IN IF ~code.ok \/ ~msg.ok THEN AllocPanic(h)
          ELSE Alloc(Append(h, ErrorValue(code.val, msg.val, Details(h, other),
                                          Cause(h, other))),
                     Len(h) + 1)

\* Standardize that copies a canonical record too.
RECURSIVE StandardizeCopy(_, _)
StandardizeCopy(h, other) ==
  IF other = Nil THEN Alloc(h, Nil)
  ELSE IF other = TypedNil THEN Alloc(h, other)
  ELSE LET code == Code(h, other)
           msg == Message(h, other)
       IN IF ~code.ok \/ ~msg.ok THEN AllocPanic(h)
          ELSE LET cause == StandardizeCopy(h, Cause(h, other))
               IN IF ~cause.ok THEN AllocPanic(h)
                  ELSE Alloc(Append(cause.heap,
                                    ErrorValue(code.val, msg.val, Details(h, other),
                                               cause.val)),
                             Len(cause.heap) + 1)

RECURSIVE StandardizeWithErrorText(_, _)
\* Standardize that takes the Error() text for the message of a value without
\* the message capability, as the encoder does.
StandardizeWithErrorText(h, other) ==
  IF other = Nil THEN Alloc(h, Nil)
  ELSE IF other = TypedNil \/ h[other].type = "ErrorValue" THEN Alloc(h, other)
  ELSE LET code == Code(h, other)
           msg == IF ErrorInterfaceWithMessage(h[other].type)
                  THEN Message(h, other)
                  ELSE ErrorString(h, other)
       IN IF ~code.ok \/ ~msg.ok THEN AllocPanic(h)
          ELSE LET cause == StandardizeWithErrorText(h, Cause(h, other))
               IN IF ~cause.ok THEN AllocPanic(h)
                  ELSE Alloc(Append(cause.heap,
                                    [ErrorValue(code.val, msg.val, Details(h, other),
                                                cause.val)
                                       EXCEPT !.alloc = ~DetailsIsNil(h, other)]),
                             Len(cause.heap) + 1)

RECURSIVE Standardize(_, _)
\* template.go Standardize: nil for nil, a *ErrorValue (typed nil included)
\* unchanged, otherwise a new record whose cause is standardized in turn.
Standardize(h, other) ==
  IF other = Nil THEN Alloc(h, Nil)
  ELSE IF other = TypedNil \/ h[other].type = "ErrorValue" THEN Alloc(h, other)
  ELSE LET code == Code(h, other)
           msg == Message(h, other)
       IN IF ~code.ok \/ ~msg.ok THEN AllocPanic(h)
          ELSE LET cause == Standardize(h, Cause(h, other))
               IN IF ~cause.ok THEN AllocPanic(h)
                  ELSE Alloc(Append(cause.heap,
                                    [ErrorValue(code.val, msg.val, Details(h, other),
                                                cause.val)
                                       EXCEPT !.alloc = ~DetailsIsNil(h, other)]),
                             Len(cause.heap) + 1)

\* The data carrier of the With* functions. A nil template is the empty
\* sequence: parse never returns one.
WithConstruction(lit, tmpl, k, v, c) ==
  [msgLiteral |-> lit, msgTemplate |-> tmpl, detailKey |-> k, detailValue |-> v,
   cause |-> c]

WithMessageTemplate(tmpl) == WithConstruction("", parse(tmpl), "", "", Nil)

WithMessageLiteral(s) == WithConstruction(s, <<>>, "", "", Nil)

WithDetail(key, value) == WithConstruction("", <<>>, key, value, Nil)

\* WithCause standardizes its argument when the option is built.
WithCause(h, cause) ==
  LET r == Standardize(h, cause)
  IN IF r.ok THEN Alloc(r.heap, WithConstruction("", <<>>, "", "", r.val))
     ELSE AllocPanic(h)

\* An option as the caller writes it: which With* function, and its arguments.
Option(kind, s, tmpl, k, v, c) ==
  [kind |-> kind, str |-> s, tmpl |-> tmpl, key |-> k, value |-> v, arg |-> c]

OptLiteral(s) == Option("literal", s, <<>>, "", "", Nil)

OptTemplate(t) == Option("template", "", t, "", "", Nil)

OptDetail(k, v) == Option("detail", "", <<>>, k, v, Nil)

OptCause(c) == Option("cause", "", <<>>, "", "", c)

RECURSIVE BuildOptions(_, _)
\* The argument list of a call of Error, evaluated left to right.
BuildOptions(h, opts) ==
  IF opts = <<>> THEN Alloc(h, <<>>)
  ELSE LET o == Head(opts)
           first == CASE o.kind = "literal" -> Alloc(h, WithMessageLiteral(o.str))
                      [] o.kind = "template" -> Alloc(h, WithMessageTemplate(o.tmpl))
                      [] o.kind = "detail" -> Alloc(h, WithDetail(o.key, o.value))
                      [] OTHER -> WithCause(h, o.arg)
       IN IF ~first.ok THEN AllocPanic(h)
          ELSE LET others == BuildOptions(first.heap, Tail(opts))
               IN IF ~others.ok THEN AllocPanic(h)
                  ELSE Alloc(others.heap, <<first.val>> \o others.val)

RECURSIVE ErrorLoopEager(_, _, _)
\* The loop of Error with the template rendered where it stands, against the
\* details given before it.
ErrorLoopEager(res, doLast, params) ==
  IF params = <<>> THEN res
  ELSE LET param == Head(params)
       IN CASE param.msgLiteral # "" ->
                 ErrorLoopEager([res EXCEPT !.msg = param.msgLiteral], doLast,
                                Tail(params))
            [] param.msgLiteral = "" /\ param.msgTemplate # <<>> ->
                 ErrorLoopEager([res EXCEPT !.msg =
                                   interpolate(param.msgTemplate, res.details)],
                                doLast, Tail(params))
            [] param.msgLiteral = "" /\ param.msgTemplate = <<>>
               /\ param.detailKey # "" ->
                 ErrorLoopEager([res EXCEPT !.details =
                                   Append(@, <<param.detailKey, param.detailValue>>),
                                 !.alloc = TRUE],
                                doLast, Tail(params))
            [] OTHER -> ErrorLoopEager(res, doLast, Tail(params))

RECURSIVE ErrorLoop(_, _, _)
\* The loop of Error over its parameters: res is the record so far, doLast the
\* deferred template (nil until one is seen).
ErrorLoop(res, doLast, params) ==
  IF params = <<>>
  THEN (IF doLast # <<>>
        THEN [res EXCEPT !.msg = interpolate(doLast, res.details)]
        ELSE res)
  ELSE LET param == Head(params)
       IN CASE param.msgLiteral # "" ->
                 ErrorLoop([res EXCEPT !.msg = param.msgLiteral], doLast, Tail(params))
            [] param.msgLiteral = "" /\ param.msgTemplate # <<>> ->
                 ErrorLoop(res, param.msgTemplate, Tail(params))
            [] param.msgLiteral = "" /\ param.msgTemplate = <<>>
               /\ param.detailKey # "" ->
                 ErrorLoop([res EXCEPT !.details =
                              Append(@, <<param.detailKey, param.detailValue>>),
                            !.alloc = TRUE],
                           doLast, Tail(params))
            [] param.msgLiteral = "" /\ param.msgTemplate = <<>>
               /\ param.detailKey = "" /\ param.cause # Nil ->
                 ErrorLoop([res EXCEPT !.cause = param.cause], doLast, Tail(params))
            [] OTHER -> ErrorLoop(res, doLast, Tail(params))

\* template.go Error: the record built from a code and With* parameters.
Error(ecode, params) == ErrorLoop(ErrorValue(ecode, "", <<>>, Nil), <<>>, params)

\* fmt.Errorf for a pattern "<prefix>", "<prefix>%s" or "<prefix>%w": the
\* error it returns, a *fmt.wrapError for %w and a plain error otherwise.
FmtErrorf(h, prefix, verb, sarg, earg) ==
  CASE verb = "%w" -> Object("wrapError", "", "", <<>>, earg,
                             prefix \o ErrorString(h, earg).val)
    [] verb = "%s" -> Object("errorString", "", "", <<>>, Nil, prefix \o sarg)
    [] OTHER -> Object("errorString", "", "", <<>>, Nil, prefix)

\* Errorf whose record is its own cause.
ErrorfSelfCause(h, ecode, prefix, verb, sarg, earg) ==
  LET fmtErr == FmtErrorf(h, prefix, verb, sarg, earg)
  IN Alloc(Append(h, ErrorValue(ecode, fmtErr.text, <<>>, Len(h) + 1)), Len(h) + 1)

\* template.go Errorf: the message is fmt.Errorf's text, the cause is the
\* standardized cause of fmt.Errorf's result.
Errorf(h, ecode, prefix, verb, sarg, earg) ==
  LET fmtErr == FmtErrorf(h, prefix, verb, sarg, earg)
      tmp == Append(h, fmtErr)
      cause == Standardize(h, Cause(tmp, Len(tmp)))
  IN IF ~cause.ok THEN AllocPanic(h)
     ELSE Alloc(Append(cause.heap, ErrorValue(ecode, fmtErr.text, <<>>, cause.val)),
                Len(cause.heap) + 1)

\* --------------------------------------------------------------- equality

\* The outcome of a predicate that may panic.
BoolPanic == [ok |-> FALSE, val |-> FALSE]

\* Is that compares the details as well as the code and the message.
IsWithDetails(h, e, target) ==
  LET ce == Code(h, e)
      ct == Code(h, target)
      me == Message(h, e)
      mt == Message(h, target)
  IN IF ~ce.ok \/ ~ct.ok THEN BoolPanic
     ELSE IF ce.val # ct.val THEN Ret(FALSE)
     ELSE IF ~me.ok \/ ~mt.ok THEN BoolPanic
     ELSE IF me.val # mt.val THEN Ret(FALSE)
     ELSE Ret(Details(h, e) = Details(h, target))

\* Is that compares the synthesized display strings instead of the messages.
IsBySynthesizedString(h, e, target) ==
  LET ce == Code(h, e)
      ct == Code(h, target)
      se == ErrorString(h, e)
      st == ErrorString(h, target)
  IN IF ~ce.ok \/ ~ct.ok THEN BoolPanic
     ELSE IF ce.val # ct.val THEN Ret(FALSE)
     ELSE IF ~se.ok \/ ~st.ok THEN BoolPanic
     ELSE Ret(se.val = st.val)

\* Is that compares the messages only.
IsIgnoringCode(h, e, target) ==
  LET me == Message(h, e)
      mt == Message(h, target)
  IN IF ~me.ok \/ ~mt.ok THEN BoolPanic ELSE Ret(me.val = mt.val)

\* struct.go ErrorValue.Is: equal codes, then equal messages; neither the
\* details nor the causes are looked at.
Is(h, e, target) ==
  LET ce == Code(h, e)
      ct == Code(h, target)
      me == Message(h, e)
      mt == Message(h, target)
  IN IF ~ce.ok \/ ~ct.ok THEN BoolPanic
     ELSE IF ce.val # ct.val THEN Ret(FALSE)
     ELSE IF ~me.ok \/ ~mt.ok THEN BoolPanic
     ELSE IF me.val # mt.val THEN Ret(FALSE)
     ELSE Ret(TRUE)

\* err == target on interface values: the same pointer, or equal values of the
\* same non-pointer type.
InterfaceEq(h, a, b) ==
  \/ a = b
  \/ /\ a > 0 /\ b > 0
     /\ ~IsPointerType(h[a].type)
     /\ h[a].type = h[b].type
     /\ h[a].text = h[b].text

RECURSIVE ErrorsIsLoop(_, _, _)
\* The loop of the host's errors.Is: identity, then the value's own Is, then
\* one step of Unwrap.
ErrorsIsLoop(h, err, target) ==
  IF InterfaceEq(h, err, target) THEN Ret(TRUE)
  ELSE LET own == IF err = TypedNil \/ HasIs(h[err].type)
                  THEN Is(h, err, target)
                  ELSE Ret(FALSE)
       IN IF ~own.ok THEN BoolPanic
          ELSE IF own.val THEN Ret(TRUE)
          ELSE IF HasUnwrap(h[err].type)
            THEN (IF h[err].cause = Nil THEN Ret(FALSE)
                  ELSE ErrorsIsLoop(h, h[err].cause, target))
          ELSE Ret(FALSE)

\* errors.Is(err, target)
ErrorsIs(h, err, target) ==
  IF err = Nil \/ target = Nil THEN Ret(err = target)
  ELSE ErrorsIsLoop(h, err, target)

\* ------------------------------------------------------------- JSON codec

\* A JSON object of the wire format: keys lists the members written, in
\* order; the member values follow (cause holds at most one nested object).
JSONObject(keys, code, message, details, cause) ==
  [keys |-> keys, code |-> code, message |-> message, details |-> details,
   cause |-> cause]

HasKey(j, k) == \E i \in 1..Len(j.keys) : j.keys[i] = k

JSONPanic == [ok |-> FALSE, val |-> JSONObject(<<>>, "", "", <<>>, <<>>)]

\* json.go isEmptyValue on an error value: a nil pointer, or an empty string
\* of a string kind.
isEmptyValue(h, v) ==
  \/ v = TypedNil
  \/ v > 0 /\ ~IsPointerType(h[v].type) /\ h[v].text = ""

\* A member of a JSON object: a key and a string value.
Member(k, v) == [key |-> k, value |-> v]

\* The members in the reverse of the order of the rows.
marshalJSONReversed(a) ==
  [i \in 1..Len(a) |-> Member(a[Len(a) + 1 - i][1], a[Len(a) + 1 - i][2])]

RECURSIVE marshalJSON(_)
\* json.go pairs.marshalJSON: one member for each row, key then value, in
\* the order of the rows.
marshalJSON(a) ==
  IF a = <<>> THEN <<>>
  ELSE <<Member(Head(a)[1], Head(a)[2])>> \o marshalJSON(Tail(a))

RECURSIVE ToJSON(_, _)
\* json.go ToJSON: code always; message when non-empty (for a foreign value,
\* its Error() text, always); details when not nil; cause, by recursion,
\* when errors.Unwrap yields a non-empty value. The wire object lists the
\* members written, in order.
ToJSON(h, err) ==
  LET code == Code(h, err)
  IN IF ~code.ok THEN JSONPanic
     ELSE
       LET o == h[err]
           serum == ErrorInterface(o.type)
           hasMsg == IF serum THEN ErrorInterfaceWithMessage(o.type) /\ o.msg # ""
                     ELSE TRUE
           msg == IF serum THEN o.msg ELSE o.text
           details == Details(h, err)
           hasDetails == ~DetailsIsNil(h, err)
           cause == IF HasUnwrap(o.type) THEN o.cause ELSE Nil
           hasCause == cause # Nil /\ ~isEmptyValue(h, cause)
           causeJson == IF hasCause THEN ToJSON(h, cause) ELSE JSONPanic
       IN IF hasCause /\ ~causeJson.ok THEN JSONPanic
          ELSE Ret(JSONObject(
                 <<"code">>
                   \o (IF hasMsg THEN <<"message">> ELSE <<>>)
                   \o (IF hasDetails THEN <<"details">> ELSE <<>>)
                   \o (IF hasCause THEN <<"cause">> ELSE <<>>),
                 code.val,
                 IF hasMsg THEN msg ELSE "",
                 IF hasDetails THEN marshalJSON(details) ELSE <<>>,
                 IF hasCause THEN <<causeJson.val>> ELSE <<>>))

\* A token of encoding/json's Decoder (its dynamic type and its value), and
\* the value an untyped rune constant has once it is converted to an
\* interface: an int32.
Token(type, val) == [type |-> type, val |-> val]

RuneConstant(c) == Token("int32", c)

\* A JSON text handed to the decoder: what its top level is, the members of
\* the object when it is one, and how every "details" member in it is
\* written: as an object of strings, as an object with a value that is not a
\* string, as an array or as a string.
Wire(top, obj, dshape) == [top |-> top, obj |-> obj, dshape |-> dshape]

\* dec.Token() on the first token of a details value.
FirstToken(dshape) ==
  CASE dshape \in {"object", "nonstring"} -> Token("json.Delim", "{")
    [] dshape = "array" -> Token("json.Delim", "[")
    [] OTHER -> Token("string", "")

\* The outcome of a decoding step: ok is FALSE when it returned an error.
Decoded(v) == [ok |-> TRUE, val |-> v]

DecodeError == [ok |-> FALSE, val |-> <<>>]

RECURSIVE pairsLoop(_, _, _)
\* The loop of pairs.UnmarshalJSON over the members: a value that is not a
\* string is an error, a string value appends a row.
pairsLoop(rows, dshape, acc) ==
  IF rows = <<>> THEN Decoded(acc)
  ELSE IF dshape = "nonstring" THEN DecodeError
  ELSE pairsLoop(Tail(rows), dshape, Append(acc, <<Head(rows).key, Head(rows).value>>))

\* json.go pairs.UnmarshalJSON: the first token is compared with the untyped
\* constant '{' (tok != '{'), an interface comparison of a json.Delim with an
\* int32, before the members are read.
pairsUnmarshalJSON(rows, dshape) ==
  IF FirstToken(dshape) # RuneConstant("{") THEN DecodeError
  ELSE pairsLoop(rows, dshape, <<>>)

RECURSIVE UnmarshalJSON(_, _, _)
\* json.go ErrorValue.UnmarshalJSON into the record at e. A JSON null leaves
\* the target as it is and is no error; any other top level that is not an
\* object is one. The members are decoded into a target whose cause is a
\* *ErrorValue; on an error nothing is assigned; otherwise the target's
\* fields are assigned to the record, and a wire object with no "cause"
\* leaves the target's pointer nil, which the interface-typed field then
\* holds.
UnmarshalJSON(h, e, w) ==
  IF w.top = "null"
  THEN Alloc([h EXCEPT ![e] = ErrorValue("", "", <<>>, TypedNil)], e)
  ELSE IF w.top # "object" THEN [ok |-> FALSE, heap |-> h, val |-> e]
  ELSE
    LET j == w.obj
        details == IF HasKey(j, "details")
                   THEN pairsUnmarshalJSON(j.details, w.dshape)
                   ELSE Decoded(<<>>)
        fresh == Append(h, ErrorValue("", "", <<>>, Nil))
        cause == IF HasKey(j, "cause")
                 THEN UnmarshalJSON(fresh, Len(fresh),
                                    Wire("object", j.cause[1], w.dshape))
                 ELSE Alloc(h, TypedNil)
    IN IF ~details.ok \/ ~cause.ok THEN [ok |-> FALSE, heap |-> h, val |-> e]
       ELSE Alloc([cause.heap EXCEPT ![e] =
                     ErrorValue(IF HasKey(j, "code") THEN j.code ELSE "",
                                IF HasKey(j, "message") THEN j.message ELSE "",
                                details.val, cause.val)],
                  e)

\* ------------------------------------------------------------ the state

NoJSON == JSONObject(<<>>, "", "", <<>>, <<>>)

\* The last operation: its name, its arguments a and b (addresses), whether it
\* returned (ok) or panicked, its result (str, bool, addr or json by kind),
\* the result of applying it again to its own result (again), and the heap
\* its results live in (h: the retained heap, then what the call allocated).
Op(name, a, b, ok, str, bool, addr, again, json, h) ==
  [op |-> name, a |-> a, b |-> b, ok |-> ok, str |-> str, bool |-> bool,
   addr |-> addr, again |-> again, json |-> json, h |-> h]

Init ==
  /\ heap = <<>>
  /\ last = Op("init", Nil, Nil, TRUE, "", FALSE, Nil, Nil, NoJSON, <<>>)

\* The operations that construct nothing. They are pure, so what can be
\* reached after one of them can be reached without it: a scenario ends with
\* the observation it makes.
Observers ==
  {"Standardize", "Code", "SynthesizeString", "Is", "errors.Is", "ToJSON", "Decode",
   "Unmarshal", "Detail", "Details"}

Ready == last.op \notin Observers

\* A constructor retains what it allocated; a panic leaves the heap as it was.
Construct(name, a, r) ==
  /\ Ready
  /\ Len(r.heap) <= MaxHeap
  /\ heap' = (IF r.ok THEN r.heap ELSE heap)
  /\ last' = Op(name, a, Nil, r.ok, "", FALSE, r.val, Nil, NoJSON,
                IF r.ok THEN r.heap ELSE heap)

\* errors.New(text)
ErrorsNew(text) ==
  Construct("errors.New", Nil,
            Alloc(Append(heap, Object("errorString", "", "", <<>>, Nil, text)),
                  Len(heap) + 1))

\* fmt.Errorf("wrap: %w", c)
FmtErrorfWrap(c) ==
  Construct("fmt.Errorf", c,
            Alloc(Append(heap, FmtErrorf(heap, "wrap: ", "%w", "", c)),
                  Len(heap) + 1))

\* A foreign error value of a non-pointer type.
NewValueError(text) ==
  Construct("ValueError", Nil,
            Alloc(Append(heap, Object("ValueError", "", "", <<>>, Nil, text)),
                  Len(heap) + 1))

\* A foreign value of a pointer type that implements the serum interfaces.
NewCustomError(code, msg, cause) ==
  Construct("CustomError", cause,
            Alloc(Append(heap, Object("CustomError", code, msg, <<>>, cause, "")),
                  Len(heap) + 1))

\* &ErrorValue{Data{Code: code, Cause: cause}} written by the caller; the
\* Cause field takes any value that implements ErrorInterface.
NewErrorValue(code, cause) ==
  /\ ErrorInterface(heap[cause].type)
  /\ Construct("ErrorValue", cause,
               Alloc(Append(heap, ErrorValue(code, "", <<>>, cause)), Len(heap) + 1))

\* serum.Error(code, options...); the call's options are kept with its result.
DoError(code, opts) ==
  LET built == BuildOptions(heap, opts)
      causes == {i \in 1..Len(opts) : opts[i].kind = "cause"}
      arg == IF causes = {} THEN Nil ELSE opts[CHOOSE i \in causes : TRUE].arg
      r == IF built.ok
           THEN Alloc(Append(built.heap, Error(code, built.val)),
                      Len(built.heap) + 1)
           ELSE AllocPanic(heap)
  IN /\ Ready
     /\ Len(r.heap) <= MaxHeap
     /\ heap' = (IF r.ok THEN r.heap ELSE heap)
     /\ last' = [opts |-> opts]
                  @@ Op("Error", arg, Nil, r.ok, "", FALSE, r.val, Nil, NoJSON,
                        IF r.ok THEN r.heap ELSE heap)

\* &ErrorValue{Data{Code: code, Details: rows}} written by the caller, the
\* rows possibly empty and not nil.
NewErrorValueWithDetails(code, rows) ==
  Construct("ErrorValue", Nil,
            Alloc(Append(heap, [ErrorValue(code, "", rows, Nil) EXCEPT !.alloc = TRUE]),
                  Len(heap) + 1))

\* A caller's error with a code and a details map, the map's entries given
\* in the order a range over the map yields them.
NewMapError(code, entries) ==
  Construct("MapError", Nil,
            Alloc(Append(heap, [Object("MapError", code, "", entries, Nil, "")
                                  EXCEPT !.alloc = TRUE]),
                  Len(heap) + 1))

\* serum.Errorf(code, prefix + verb, arg)
DoErrorf(code, prefix, verb, sarg, earg) ==
  Construct("Errorf", earg, Errorf(heap, code, prefix, verb, sarg, earg))

\* An observer leaves the retained heap alone.
Observe(o) ==
  /\ Ready
  /\ heap' = heap
  /\ last' = o

\* serum.Standardize(x), and Standardize of its result.
DoStandardize(x) ==
  LET r == Standardize(heap, x)
      rr == Standardize(r.heap, r.val)
  IN Observe(Op("Standardize", x, Nil, r.ok /\ rr.ok, "", FALSE, r.val, rr.val,
                NoJSON, IF r.ok /\ rr.ok THEN rr.heap ELSE heap))

\* serum.Code(x)
DoCode(x) ==
  LET r == Code(heap, x)
  IN Observe(Op("Code", x, Nil, r.ok, r.val, FALSE, Nil, Nil, NoJSON, heap))

\* serum.SynthesizeString(x), which is x.Error() for a record
DoSynthesizeString(x) ==
  LET r == SynthesizeString(heap, x)
  IN /\ ErrorInterface(heap[x].type)
     /\ Observe(Op("SynthesizeString", x, Nil, r.ok, r.val, FALSE, Nil, Nil, NoJSON,
                   heap))

\* e.Is(t) on a record e
DoIs(e, t) ==
  LET r == Is(heap, e, t)
  IN /\ heap[e].type = "ErrorValue"
     /\ Observe(Op("Is", e, t, r.ok, "", r.val, Nil, Nil, NoJSON, heap))

\* errors.Is(w, t)
DoErrorsIs(w, t) ==
  LET r == ErrorsIs(heap, w, t)
  IN Observe(Op("errors.Is", w, t, r.ok, "", r.val, Nil, Nil, NoJSON, heap))

\* serum.ToJSON(x)
DoToJSON(x) ==
  LET r == ToJSON(heap, x)
  IN Observe(Op("ToJSON", x, Nil, r.ok, "", FALSE, Nil, Nil, r.val, heap))

\* json.Unmarshal(ToJSON(x), &ErrorValue{})
DoDecode(x) ==
  LET j == ToJSON(heap, x)
      fresh == Append(heap, ErrorValue("", "", <<>>, Nil))
      r == UnmarshalJSON(fresh, Len(fresh), Wire("object", j.val, "object"))
  IN Observe(Op("Decode", x, Nil, j.ok /\ r.ok, "", FALSE,
                IF j.ok THEN Len(fresh) ELSE Nil, Nil, j.val,
                IF j.ok THEN r.heap ELSE heap))

\* serum.Detail(x, k), and serum.DetailsMap(x)[k] beside it
DoDetail(x, k) ==
  Observe([key |-> k, mapped |-> MapIndex(DetailsMap(heap, x), k)]
            @@ Op("Detail", x, Nil, TRUE, Detail(heap, x, k), FALSE, Nil, Nil, NoJSON,
                  heap))

\* serum.Details(x)
DoDetails(x) ==
  Observe([rows |-> Details(heap, x)]
            @@ Op("Details", x, Nil, TRUE, "", FALSE, Nil, Nil, NoJSON, heap))

\* var d ErrorValue; json.Unmarshal(ToJSON(x), &d), with d kept for later use.
DoDecodeInto(x) ==
  LET j == ToJSON(heap, x)
      fresh == Append(heap, ErrorValue("", "", <<>>, Nil))
      r == UnmarshalJSON(fresh, Len(fresh), Wire("object", j.val, "object"))
  IN /\ Ready
     /\ j.ok
     /\ Len(r.heap) <= MaxHeap
     /\ heap' = r.heap
     /\ last' = Op("DecodeInto", x, Nil, r.ok, "", FALSE, Len(fresh), Nil, j.val,
                   r.heap)

\* json.Unmarshal(w, e) into a record that already holds data: h keeps the
\* heap as it was before the call.
DoUnmarshal(e, w) ==
  LET r == UnmarshalJSON(heap, e, w)
  IN /\ Ready
     /\ heap[e].type = "ErrorValue"
     /\ heap' = r.heap
     /\ last' = [wire |-> w]
                  @@ Op("Unmarshal", e, Nil, r.ok, "", FALSE, e, Nil, w.obj, heap)

\* ------------------------------------------------------ specifications

\* The strings the scenarios draw from.
Codes == {"", "a"}

Texts == {"x"}

\* The caller's own values come first.
CallerTurn == Len(heap) < MaxForeign

\* Foreign and canonical values of every shape, wrapped and standardized.
Next ==
  \/ \E t \in Texts : CallerTurn /\ ErrorsNew(t)
  \/ \E c \in Addrs(heap) : CallerTurn /\ FmtErrorfWrap(c)
  \/ \E t \in Texts : CallerTurn /\ NewValueError(t)
  \/ \E c \in {Nil} \cup Addrs(heap) : CallerTurn /\ NewCustomError("c", "", c)
  \/ \E c \in Addrs(heap) : CallerTurn /\ NewErrorValue("h", c)
  \/ heap = <<>> /\ NewMapError("d", <<<<"k", "2">>, <<"j", "1">>>>)
  \/ \E c \in Addrs(heap) : DoError("a", <<OptCause(c)>>)
  \/ \E c \in Addrs(heap) : DoErrorf("a", "m: ", "%w", "", c)
  \/ \E x \in Addrs(heap) : DoStandardize(x)
  \/ \E x \in Addrs(heap) : DoCode(x)
  \/ \E e \in Addrs(heap), t \in Addrs(heap) : DoIs(e, t)
  \/ \E w \in Addrs(heap), t \in Addrs(heap) : DoErrorsIs(w, t)
  \/ \E x \in Addrs(heap) : DoToJSON(x)

Spec == Init /\ [][Next]_vars

\* The message options and the detail options a record is built with.
MessageOptions ==
  {<<>>, <<OptLiteral("m")>>, <<OptTemplate(<<"m", " ", "{", "{", "k", "}", "}">>)>>}

DetailOptions ==
  {<<>>, <<OptDetail("k", "1"), OptDetail("k", "2")>>, <<OptDetail("j", "2")>>}

CauseOptions == {<<>>} \cup {<<OptCause(c)>> : c \in Addrs(heap)}

\* The caller builds its records one after the other.
BuilderTurn == Len(heap) < MaxRecords

\* Records built by Error and Errorf beside a foreign error and a custom
\* serum-style value, then encoded, decoded, rendered and compared.
NextRecords ==
  \/ \E code \in Codes, m \in MessageOptions, d \in DetailOptions, c \in CauseOptions :
       BuilderTurn /\ DoError(code, m \o d \o c)
  \/ \E code \in Codes : BuilderTurn /\ DoErrorf(code, "m", "", "", Nil)
  \/ \E code \in Codes, c \in Addrs(heap) :
       BuilderTurn /\ DoErrorf(code, "m: ", "%w", "", c)
  \/ \E t \in Texts : BuilderTurn /\ ErrorsNew(t)
  \/ \E code \in Codes : BuilderTurn /\ NewCustomError(code, "m", Nil)
  \/ \E x \in Addrs(heap) : DoCode(x)
  \/ \E x \in Addrs(heap) : DoSynthesizeString(x)
  \/ \E e \in Addrs(heap), t \in Addrs(heap) : DoIs(e, t)
  \/ \E x \in Addrs(heap) : DoToJSON(x)
  \/ \E x \in Addrs(heap) : DoDecode(x)

SpecRecords == Init /\ [][NextRecords]_vars

\* Records built by Error and Errorf beside a foreign error, encoded and
\* decoded into records that the caller keeps, renders, compares and encodes
\* again.
NextDecoded ==
  \/ \E m \in {<<>>, <<OptLiteral("m")>>}, d \in {<<>>, <<OptDetail("k", "1")>>},
        c \in CauseOptions :
       BuilderTurn /\ DoError("a", m \o d \o c)
  \/ \E c \in Addrs(heap) : BuilderTurn /\ DoErrorf("b", "m: ", "%w", "", c)
  \/ \E t \in Texts : BuilderTurn /\ ErrorsNew(t)
  \/ \E x \in Addrs(heap) : DoDecodeInto(x)
  \/ \E x \in Addrs(heap) : DoSynthesizeString(x)
  \/ \E w \in Addrs(heap), t \in Addrs(heap) : DoErrorsIs(w, t)
  \/ \E x \in Addrs(heap) : DoToJSON(x)
  \/ \E x \in Addrs(heap) : DoStandardize(x)

SpecDecoded == Init /\ [][NextDecoded]_vars

\* The longest option list of a call of Error.
MaxOptions == 3

\* The options a call of Error is given: literal and templated messages,
\* details with repeated, empty and distinct keys.
OptionChoices ==
  {OptLiteral("m"), OptLiteral(""),
   OptTemplate(<<"{", "{", "j", "}", "}", "{", "{", "k", "}", "}">>),
   OptTemplate(<<"{", "{", "k", "}", "}", "{", "{", "k", "}", "}">>),
   OptDetail("k", "1"), OptDetail("k", "2"), OptDetail("j", "2"),
   OptDetail("j", ""), OptDetail("", "3")}

OptionLists == UNION {[1..n -> OptionChoices] : n \in 0..MaxOptions}

\* The rows of a record written by hand, and the entries of a details map.
HandDetails == {<<>>, <<<<"k", "2">>, <<"j", "1">>>>}

MapEntries == {<<>>, <<<<"j", "1">>, <<"k", "2">>>>, <<<<"k", "2">>, <<"j", "1">>>>}

\* JSON texts a decoder is handed, well-formed and not.
WireObjects ==
  {JSONObject(<<"code">>, "b", "", <<>>, <<>>),
   JSONObject(<<"code", "message", "details">>, "b", "n", <<Member("k", "9")>>, <<>>),
   JSONObject(<<"code", "cause">>, "b", "", <<>>,
              <<JSONObject(<<"code", "details">>, "c", "", <<Member("k", "9")>>, <<>>)>>)}

Wires ==
  {Wire(top, obj, dshape) :
     top \in {"object", "null", "array", "string"},
     obj \in WireObjects,
     dshape \in {"object", "nonstring", "array", "string"}}

\* The keys asked for: two that scenarios set, one that none sets.
DetailKeys == {"j", "k", "z"}

\* One value at a time.
Fresh == heap = <<>>

\* One value built from any option list, or written by hand, then encoded
\* and decoded.
NextOptions ==
  \/ Fresh /\ \E code \in Codes, opts \in OptionLists : DoError(code, opts)
  \/ Fresh /\ \E code \in Codes : DoErrorf(code, "m ", "%s", "x", Nil)
  \/ Fresh /\ \E rows \in HandDetails : NewErrorValueWithDetails("a", rows)
  \/ Fresh /\ \E entries \in MapEntries : NewMapError("a", entries)
  \/ Fresh /\ \E t \in {"", "x"} : ErrorsNew(t)
  \/ \E x \in Addrs(heap) : DoToJSON(x)
  \/ \E x \in Addrs(heap) : DoDecode(x)
  \/ \E e \in Addrs(heap), w \in Wires : DoUnmarshal(e, w)
  \/ \E x \in Addrs(heap), k \in DetailKeys : DoDetail(x, k)
  \/ \E x \in Addrs(heap) : DoDetails(x)

SpecOptions == Init /\ [][NextOptions]_vars

\* ------------------------------------------------- the template engine

\* An iteration of parse that keeps an empty marker in the input it leaves.
parseStepNoAdvance(s) ==
  LET p == Index2(s, "{")
      rest == SubSeq(s, p + 2, Len(s))
      q == Index2(rest, "}")
  IN IF p = 0 \/ q = 0
     THEN [segs |-> <<parsed(Str(s), "")>>, rest |-> <<>>, done |-> TRUE]
     ELSE IF q = 1
     THEN [segs |-> <<parsed(Str(SubSeq(s, p, p + 3)), "")>>, rest |-> s,
           done |-> FALSE]
     ELSE [segs |-> <<parsed("", Str(TrimSpace(SubSeq(rest, 1, q - 1))))>>,
           rest |-> SubSeq(rest, q + 2, Len(rest)),
           done |-> SubSeq(rest, q + 2, Len(rest)) = <<>>]

\* An iteration of parse that drops an opener without a closer and keeps only
\* the text before it, and that takes an empty marker for a lookup.
parseStepStrict(s) ==
  LET p == Index2(s, "{")
      rest == SubSeq(s, p + 2, Len(s))
      q == Index2(rest, "}")
  IN IF p = 0
     THEN [segs |-> <<parsed(Str(s), "")>>, rest |-> <<>>, done |-> TRUE]
     ELSE IF q = 0
     THEN [segs |-> <<parsed(Str(SubSeq(s, 1, p - 1)), "")>>, rest |-> <<>>,
           done |-> TRUE]
     ELSE
       LET before == IF p > 1 THEN <<parsed(Str(SubSeq(s, 1, p - 1)), "")>> ELSE <<>>
           marker == <<parsed("", Str(TrimSpace(SubSeq(rest, 1, q - 1))))>>
           after == SubSeq(rest, q + 2, Len(rest))
       IN [segs |-> before \o marker, rest |-> after, done |-> after = <<>>]

\* One iteration of the loop of parse on the remaining input s: the segments
\* it appends, the input left for the next iteration, and whether it returns.
parseStep(s) ==
  LET p == Index2(s, "{")
      rest == SubSeq(s, p + 2, Len(s))
      q == Index2(rest, "}")
  IN IF p = 0 \/ q = 0
     THEN [segs |-> <<parsed(Str(s), "")>>, rest |-> <<>>, done |-> TRUE]
     ELSE
       LET before == IF p > 1 THEN <<parsed(Str(SubSeq(s, 1, p - 1)), "")>> ELSE <<>>
           marker == IF q > 1
                     THEN <<parsed("", Str(TrimSpace(SubSeq(rest, 1, q - 1))))>>
                     ELSE <<parsed(Str(SubSeq(s, p, p + 3)), "")>>
           after == SubSeq(rest, q + 2, Len(rest))
       IN [segs |-> before \o marker, rest |-> after, done |-> after = <<>>]

\* The state of a call of parse or interpolate: the template, the input not
\* yet consumed, the segments so far, the table, whether the call returned,
\* and the string it returned.
TemplateOp(name, tmpl, rest, segs, table, done, str) ==
  [tmpl |-> tmpl, rest |-> rest, segs |-> segs, table |-> table]
    @@ Op(name, Nil, Nil, TRUE, str, done, Nil, Nil, NoJSON, <<>>)

\* parse(t) is called: nothing consumed yet.
StartParse(t) ==
  /\ last.op = "init"
  /\ heap' = heap
  /\ last' = TemplateOp("parse", t, t, <<>>, <<>>, FALSE, "")

\* parse runs one iteration of its loop.
ParseStep ==
  /\ last.op = "parse"
  /\ ~last.bool
  /\ LET r == parseStep(last.rest)
     IN /\ heap' = heap
        /\ last' = TemplateOp("parse", last.tmpl, r.rest, last.segs \o r.segs,
                              <<>>, r.done, "")

\* interpolate(parse(t), table)
DoInterpolate(t, table) ==
  /\ last.op = "init"
  /\ heap' = heap
  /\ last' = TemplateOp("interpolate", t, <<>>, parse(t), table, TRUE,
                        interpolate(parse(t), table))

\* The longest template, in tokens.
MaxTemplateLen == 5

\* The pieces templates are written with: markers, a lone brace, a key, a
\* blank, and a directive.
Tokens ==
  {<<"{", "{">>, <<"}", "}">>, <<"}">>, <<"k">>, <<" ">>, <<"|">>, <<"q">>}

RECURSIVE Flatten(_)
Flatten(ts) == IF ts = <<>> THEN <<>> ELSE Head(ts) \o Flatten(Tail(ts))

\* Every template of at most MaxTemplateLen tokens, balanced or not.
Templates ==
  {Flatten(ts) : ts \in UNION {[1..n -> Tokens] : n \in 0..MaxTemplateLen}}

\* The tables templates are rendered against.
Tables == {<<>>, <<<<"k", "1">>>>, <<<<"k", "1">>, <<"k", "2">>>>}

\* Templates of every shape, parsed step by step and rendered.
NextTemplates ==
  \/ last.op = "init" /\ \E t \in Templates : StartParse(t)
  \/ ParseStep
  \/ last.op = "init" /\ \E t \in Templates, table \in Tables : DoInterpolate(t, table)

SpecTemplates == Init /\ [][NextTemplates]_vars

\* ------------------------------------------- one template, two records

\* An iteration of interpolate that keeps the text it rendered in the segment
\* it rendered it from.
interpolateStepCaching(p, table) ==
  LET out == (IF p.literal # "" THEN p.literal ELSE "")
             \o (IF p.interp # "" THEN Lookup(table, p.interp) ELSE "")
  IN [out |-> out, seg |-> parsed(out, "")]

\* One iteration of the loop of interpolate over the segment p: what it
\* writes to the call's own builder, and the segment as it leaves it.
interpolateStep(p, table) ==
  [out |-> (IF p.literal # "" THEN p.literal ELSE "")
             \o (IF p.interp # "" THEN Lookup(table, p.interp) ELSE ""),
   seg |-> p]

\* A call of Error that has reached its deferred template: the details it
\* assembled, the segment it renders next, its builder, and whether it has
\* assigned the message.
Run(details) == [details |-> details, i |-> 1, sb |-> "", done |-> FALSE]

\* The state of two calls of Error that were given the same
\* WithMessageTemplate value: the template, its segments, and the two calls.
SharedOp(tmpl, segs, runs) ==
  [tmpl |-> tmpl, segs |-> segs, runs |-> runs]
    @@ Op("shared", Nil, Nil, TRUE, "", FALSE, Nil, Nil, NoJSON, <<>>)

\* w := WithMessageTemplate(t); Error(c, w, d1...) and Error(c, w, d2...) begin.
StartShared(t, d1, d2) ==
  /\ last.op = "init"
  /\ heap' = heap
  /\ last' = SharedOp(t, WithMessageTemplate(t).msgTemplate,
                      <<Run(Error("a", BuildOptions(<<>>, d1).val).details),
                        Run(Error("a", BuildOptions(<<>>, d2).val).details)>>)

\* Call n runs one iteration of interpolate, or assigns the finished message.
RenderStep(n) ==
  /\ last.op = "shared"
  /\ ~last.runs[n].done
  /\ heap' = heap
  /\ LET run == last.runs[n]
     IN IF run.i > Len(last.segs)
        THEN last' = [last EXCEPT !.runs[n].done = TRUE]
        ELSE LET r == interpolateStep(last.segs[run.i], run.details)
             IN last' = [last EXCEPT !.segs[run.i] = r.seg,
                                     !.runs[n].i = run.i + 1,
                                     !.runs[n].sb = run.sb \o r.out]

\* The templates and the detail options the two calls share and differ in.
SharedTemplates ==
  {<<"{", "{", "k", "}", "}">>,
   <<"m", " ", "{", "{", "k", "}", "}", " ", "{", "{", "j", "}", "}">>}

SharedDetails ==
  {<<>>, <<OptDetail("k", "1")>>, <<OptDetail("k", "2"), OptDetail("j", "1")>>}

\* Records built and then read in every way, and two calls of Error that
\* share one templated-message option, their iterations interleaved.
NextShared ==
  \/ \E m \in MessageOptions, d \in DetailOptions, c \in CauseOptions :
       BuilderTurn /\ DoError("a", m \o d \o c)
  \/ \E t \in Texts : BuilderTurn /\ ErrorsNew(t)
  \/ \E x \in Addrs(heap) : DoCode(x)
  \/ \E x \in Addrs(heap), k \in DetailKeys : DoDetail(x, k)
  \/ \E x \in Addrs(heap) : DoDetails(x)
  \/ \E x \in Addrs(heap) : DoSynthesizeString(x)
  \/ \E e \in Addrs(heap), t \in Addrs(heap) : DoIs(e, t)
  \/ \E x \in Addrs(heap) : DoToJSON(x)
  \/ \E x \in Addrs(heap) : DoStandardize(x)
  \/ last.op = "init"
       /\ \E t \in SharedTemplates, d1 \in SharedDetails, d2 \in SharedDetails :
            StartShared(t, d1, d2)
  \/ \E n \in {1, 2} : RenderStep(n)

SpecShared == Init /\ [][NextShared]_vars

\* ------------------------------------------------------------ the claims

RECURSIVE SameChain(_, _, _)
\* Records a and b agree in code, message and details, and so do their
\* causes, down to an absent cause on both sides.
SameChain(h, a, b) ==
  IF a = Nil \/ b = Nil THEN a = b
  ELSE IF a = TypedNil \/ b = TypedNil THEN a = b
  ELSE /\ Code(h, a) = Code(h, b)
       /\ h[a].msg = h[b].msg
       /\ h[a].details = h[b].details
       /\ SameChain(h, h[a].cause, h[b].cause)

RECURSIVE AllCanonical(_, _)
\* Every value on the cause chain from a is a *ErrorValue.
AllCanonical(h, a) ==
  IF a = Nil \/ a = TypedNil THEN TRUE
  ELSE h[a].type = "ErrorValue" /\ AllCanonical(h, h[a].cause)

RECURSIVE CanonicalBelow(_, _)
\* The first *ErrorValue met on the cause chain from a, if there is one, has
\* only *ErrorValue records on its own chain.
CanonicalBelow(h, a) ==
  IF a = Nil \/ a = TypedNil THEN TRUE
  ELSE IF h[a].type = "ErrorValue" THEN AllCanonical(h, a)
  ELSE CanonicalBelow(h, Cause(h, a))

\* The code as the Code accessor shows it.
Shown(code) == IF code = "" THEN "?!" ELSE code

\* C1: JSON round-trip. For every record v built by Error or Errorf,
\* Decode(Encode(v)) has the same code, message, details in order, and a cause
\* chain of the same depth with the same content at every level.
C1_RoundTrip ==
  (last.op = "Decode" /\ heap[last.a].type = "ErrorValue")
    => (last.ok /\ SameChain(last.h, last.a, last.addr))

\* C2: Standardize is idempotent by reference. Whenever Standardize(x)
\* returns, Standardize of its result is the very same record, and an
\* already-canonical x is returned itself, with nothing allocated.
C2_StandardizeIdempotent ==
  (last.op = "Standardize" /\ last.ok)
    => /\ last.again = last.addr
       /\ heap[last.a].type = "ErrorValue" => (last.addr = last.a /\ last.h = heap)

\* C2 witness: a foreign value was standardized into a new record, and
\* standardized again.
C2_Witness ==
  /\ last.op = "Standardize" /\ last.ok
  /\ heap[last.a].type = "wrapError"
  /\ last.addr > Len(heap)
  /\ last.again = last.addr

\* C3 as stated: for any input, every record on the cause chain of what
\* Standardize, Errorf with a wrap verb or Error with WithCause returns is a
\* *ErrorValue.
C3_CanonicalChainAnyInput ==
  (last.op \in {"Standardize", "Error", "Errorf"} /\ last.ok)
    => AllCanonical(last.h, last.addr)

\* C3 amended: the same, for an input whose first *ErrorValue (if any) has
\* only *ErrorValue records on its own cause chain.
C3_CanonicalChain ==
  (last.op \in {"Standardize", "Error", "Errorf"} /\ last.ok
   /\ CanonicalBelow(last.h, last.a))
    => AllCanonical(last.h, last.addr)

\* C3 witness: a foreign error that wraps a foreign error was standardized,
\* two levels deep.
C3_Witness ==
  /\ last.op = "Standardize" /\ last.ok
  /\ heap[last.a].type = "wrapError"
  /\ heap[heap[last.a].cause].type = "errorString"
  /\ last.h[last.addr].cause > Len(heap)

\* C4: Code never fails. For every non-nil error value, of a pointer type or
\* not, Code returns a non-empty string.
C4_CodeNeverFails ==
  last.op = "Code" => (last.ok /\ last.str # "")

RECURSIVE DisplayWithSentinel(_, _)
\* The display string with the code as the Code accessor shows it.
DisplayWithSentinel(h, a) ==
  LET o == h[a]
      withMsg == IF o.msg # "" THEN Shown(o.code) \o ": " \o o.msg ELSE Shown(o.code)
  IN IF o.cause # Nil
     THEN withMsg \o ": caused by: " \o DisplayWithSentinel(h, o.cause)
     ELSE withMsg

\* C5: Empty-code sentinel. For a value whose exposed code is empty, the Code
\* accessor, the "code" member of the encoding and the synthesized display
\* string all show "?!".
C5_EmptyCodeSentinel ==
  (last.a > 0 /\ ErrorInterface(heap[last.a].type) /\ heap[last.a].code = "")
    => /\ last.op = "Code" => (last.ok /\ last.str = "?!")
       /\ last.op = "ToJSON" => (last.ok /\ last.json.code = "?!")
       /\ last.op = "SynthesizeString"
            => (last.ok /\ last.str = DisplayWithSentinel(heap, last.a))

C8_DetailsMustBeEquivalent ==
  (/\ last.op = "Is"
   /\ heap[last.b].type = "ErrorValue"
   /\ heap[last.a].code = heap[last.b].code
   /\ heap[last.a].msg = heap[last.b].msg
   /\ heap[last.a].details # heap[last.b].details)
    => (last.ok /\ ~last.bool)

RECURSIVE UnwrapChain(_, _)
\* The values met by unwrapping from a, a included.
UnwrapChain(h, a) ==
  IF a = Nil \/ a = TypedNil THEN {}
  ELSE {a} \cup UnwrapChain(h, Cause(h, a))

\* C9: errors.Is resolves through a coerced cause. For w = Error(code,
\* WithCause(c)) the construction and the traversal never fail, and
\* errors.Is(w, g) is true for c and for every error c wraps.
C9_ErrorsIsThroughCause ==
  (last.op = "Error" /\ last.a # Nil)
    => /\ last.ok
       /\ \A g \in UnwrapChain(heap, last.a) :
            ErrorsIs(heap, last.addr, g) = Ret(TRUE)

\* C10 as stated: the verdict of Is never rests on a code synthesized from
\* runtime type information: a record is never judged equivalent to a target
\* that has no code of its own.
C10_IsNeverUsesBestGuess ==
  (last.op = "Is" /\ last.ok /\ last.bool) => ErrorInterface(heap[last.b].type)

\* C10 amended: Is compares the codes the Code accessor returns, the best
\* guess included: a record is judged equivalent to a target without the code
\* capability only if the record's code is the best-guess code of the
\* target's runtime type.
C10_BestGuessComparedAsCode ==
  (last.op = "Is" /\ last.ok /\ last.bool /\ ~ErrorInterface(heap[last.b].type))
    => heap[last.a].code = BestGuessCode(heap[last.b].type)

\* C10 witness: one record is judged equivalent to two distinct foreign
\* errors of the same runtime type.
C10_Witness ==
  /\ last.op = "Is" /\ last.ok /\ last.bool
  /\ ~ErrorInterface(heap[last.b].type)
  /\ \E t \in Addrs(heap) :
       /\ t # last.b
       /\ heap[t].type = heap[last.b].type
       /\ Is(heap, last.a, t) = Ret(TRUE)

\* The body of a template that is one marker and nothing else, with no brace
\* inside it; <<"}">> when the template is not of that form.
MarkerBody(t) ==
  IF /\ Len(t) >= 4
     /\ SubSeq(t, 1, 2) = <<"{", "{">>
     /\ SubSeq(t, Len(t) - 1, Len(t)) = <<"}", "}">>
     /\ \A i \in 3..(Len(t) - 2) : t[i] \notin {"{", "}"}
  THEN SubSeq(t, 3, Len(t) - 2)
  ELSE <<"}">>

\* The table has a row for the key.
HasRow(table, k) == \E i \in 1..Len(table) : table[i][1] = k

\* C18: The template engine is total. Every iteration of parse that does not
\* return leaves strictly less input than it found, parse returns the
\* segments of the whole template, and interpolate returns a string for every
\* segment sequence and table; neither reports an error.
C18_TemplateEngineTotal ==
  [][/\ (last.op = "parse" /\ last'.op = "parse")
        => /\ ~last'.bool => Len(last'.rest) < Len(last.rest)
           /\ last'.bool => (last'.ok /\ last'.segs = parse(last'.tmpl))
     /\ last'.op = "interpolate"
        => (last'.ok /\ last'.str = interpolate(last'.segs, last'.table))]_vars

\* C18 witness: parse returned after two iterations of its loop, over an
\* empty marker and a marker.
C18_Witness ==
  /\ last.op = "parse" /\ last.bool
  /\ last.tmpl = <<"{", "{", "}", "}", "{", "{", "k", "}", "}">>
  /\ last.segs = <<parsed("{{}}", ""), parsed("", "k")>>

C20_DirectiveProcessing ==
  (last.op = "interpolate" /\ HasRow(last.table, "k"))
    => /\ last.tmpl = <<"{", "{", "k", "|", "}", "}">>
            => last.str = Lookup(last.table, "k")
       /\ last.tmpl = <<"{", "{", "k", "|", "q", "}", "}">>
            => last.str = "\"" \o Lookup(last.table, "k") \o "\""

\* The positions of the options of a kind in an option list.
OptionsOfKind(opts, kind) == {i \in 1..Len(opts) : opts[i].kind = kind}

RECURSIVE DetailRows(_)
\* The (key, value) pairs of the detail options of an option list, in order.
DetailRows(opts) ==
  IF opts = <<>> THEN <<>>
  ELSE (IF Head(opts).kind = "detail"
        THEN <<<<Head(opts).key, Head(opts).value>>>>
        ELSE <<>>) \o DetailRows(Tail(opts))

\* The option list without its i-th option, and with an option put at
\* position pos.
Without(opts, i) == SubSeq(opts, 1, i - 1) \o SubSeq(opts, i + 1, Len(opts))

InsertAt(opts, pos, o) == SubSeq(opts, 1, pos - 1) \o <<o>> \o SubSeq(opts, pos, Len(opts))

\* C11: The templated message is evaluated last. For a call of Error with one
\* templated-message option, the message is the template rendered against
\* the rows of all the detail options, and it is the same wherever the
\* template option stands in the list.
C11_TemplateEvaluatedLast ==
  (last.op = "Error" /\ last.ok /\ Cardinality(OptionsOfKind(last.opts, "template")) = 1)
    => LET i == CHOOSE i \in OptionsOfKind(last.opts, "template") : TRUE
           others == Without(last.opts, i)
           this == heap[last.addr]
       IN /\ this.msg = interpolate(parse(last.opts[i].tmpl), DetailRows(last.opts))
          /\ \A pos \in 1..Len(last.opts) :
               Error(this.code,
                     BuildOptions(<<>>, InsertAt(others, pos, last.opts[i])).val).msg
                 = this.msg

\* C11 witness: the template is the first option and both details it names
\* come after it.
C11_Witness ==
  /\ last.op = "Error" /\ last.ok
  /\ Len(last.opts) = 3
  /\ last.opts[1].kind = "template"
  /\ last.opts[2] = OptDetail("k", "1")
  /\ last.opts[3] = OptDetail("j", "2")
  /\ heap[last.addr].msg = "21"

\* C12: Detail options accumulate. The details of the record Error returns
\* are the (key, value) pairs of all its detail options, for every key and
\* value, in the order given, repeated keys included.
C12_DetailsAccumulate ==
  (last.op = "Error" /\ last.ok)
    => heap[last.addr].details = DetailRows(last.opts)

\* C13: Wrapping with Errorf and the wrap verb. For e = Errorf(c1, m1) and
\* w = Errorf(c2, "<text>: %w", e), the encoding of w has the code c2, the
\* message "<text>: " followed by m1, and a nested cause with c1 and m1.
C13_ErrorfWrapEncoding ==
  (/\ last.op = "Errorf" /\ last.ok /\ last.a # Nil
   /\ heap[last.a].type = "ErrorValue"
   /\ heap[last.a].cause = Nil /\ heap[last.a].details = <<>>)
    => LET j == ToJSON(heap, last.addr).val
       IN /\ j.keys = <<"code", "message", "cause">>
          /\ j.code = Shown(heap[last.addr].code)
          /\ j.message = "m: " \o heap[last.a].msg
          /\ j.cause[1].code = Shown(heap[last.a].code)
          /\ j.cause[1].message = heap[last.a].msg

\* The message ToJSON has to write for a value: a serum-style value's
\* message, any other error's text.
MessageToEncode(o) == IF ErrorInterface(o.type) THEN o.msg ELSE o.text

\* C14: Encode key order and omission. The members of the encoding are, in
\* this order, code (always), message (unless it is empty), details (unless
\* they are empty, nil or not) and cause (unless there is none).
C14_EncodeKeyOrderAndOmission ==
  (last.op = "ToJSON")
    => /\ last.ok
       /\ last.json.keys =
            <<"code">>
              \o (IF MessageToEncode(heap[last.a]) # "" THEN <<"message">> ELSE <<>>)
              \o (IF Details(heap, last.a) # <<>> THEN <<"details">> ELSE <<>>)
              \o (IF Cause(heap, last.a) # Nil THEN <<"cause">> ELSE <<>>)

\* C15: Detail order is preserved in the encoding. For a record with n >= 1
\* detail rows, the "details" member has exactly n members, the i-th with
\* the key and the value of the i-th row, never sorted.
C15_DetailOrderPreserved ==
  (/\ last.op = "ToJSON"
   /\ heap[last.a].type = "ErrorValue"
   /\ Len(heap[last.a].details) >= 1)
    => /\ last.ok
       /\ HasKey(last.json, "details")
       /\ Len(last.json.details) = Len(heap[last.a].details)
       /\ \A i \in 1..Len(heap[last.a].details) :
            /\ last.json.details[i].key = heap[last.a].details[i][1]
            /\ last.json.details[i].value = heap[last.a].details[i][2]

\* C15 witness: a record whose rows are not in key order, k before j, was
\* encoded.
C15_Witness ==
  /\ last.op = "ToJSON" /\ last.ok
  /\ heap[last.a].type = "ErrorValue"
  /\ heap[last.a].details = <<<<"k", "1">>, <<"j", "2">>>>
  /\ last.json.details = <<Member("k", "1"), Member("j", "2")>>

RECURSIVE EveryObjectHasCode(_)
\* Every object of an encoding, nested causes included, has a code member.
EveryObjectHasCode(j) ==
  /\ HasKey(j, "code")
  /\ j.code # ""
  /\ HasKey(j, "cause") => EveryObjectHasCode(j.cause[1])

\* C16: Foreign values encode gracefully. Encoding a foreign error, or a
\* record with a foreign error on its cause chain, never fails, every object
\* of the output has a code, and a foreign value's message is its text.
C16_ForeignEncodesGracefully ==
  (last.op = "ToJSON")
    => /\ last.ok
       /\ EveryObjectHasCode(last.json)
       /\ ~ErrorInterface(heap[last.a].type)
            => (HasKey(last.json, "message") /\ last.json.message = heap[last.a].text)

\* C17: Decode is strict and atomic. Decoding fails when the top level is not
\* an object, when a "details" member is not an object, and when a value in
\* it is not a string; when it fails, the record is as it was before.
C17_DecodeStrictAndAtomic ==
  (last.op = "Unmarshal")
    => /\ last.wire.top # "object" => ~last.ok
       /\ (/\ last.wire.top = "object"
           /\ HasKey(last.wire.obj, "details")
           /\ last.wire.dshape # "object") => ~last.ok
       /\ ~last.ok => heap[last.a] = last.h[last.a]

\* C21: Detail agrees with DetailsMap. For every error value and every key k,
\* Detail(err, k) is DetailsMap(err)[k], also when the ordered details hold k
\* more than once with different values; both are "" when k is absent.
C21_DetailAgreesWithDetailsMap ==
  last.op = "Detail"
    => /\ last.str = last.mapped
       /\ ~HasRow(heap[last.a].details, last.key) => last.str = ""

RECURSIVE IsSortedByKey(_)
\* The rows are in ascending key order.
IsSortedByKey(l) ==
  Len(l) < 2 \/ (~Less(l[2], l[1]) /\ IsSortedByKey(Tail(l)))

\* The rows of l as a set.
RowSet(l) == {l[i] : i \in 1..Len(l)}

\* C22: Details accessor. Ordered details are returned as they are; a map of n
\* entries is returned as exactly those n pairs and no others, sorted by key;
\* a value with neither capability gives empty.
C22_DetailsAccessor ==
  last.op = "Details"
    => LET o == heap[last.a]
       IN /\ ErrorInterfaceWithDetailsOrdered(o.type) => last.rows = o.details
          /\ ErrorInterfaceWithDetailsMap(o.type)
               => /\ Len(last.rows) = Len(o.details)
                  /\ RowSet(last.rows) = RowSet(o.details)
                  /\ IsSortedByKey(last.rows)
          /\ ~ErrorInterface(o.type) => last.rows = <<>>

\* Where the first "{{" of s starts, 0 when s has none.
FirstOpener(s) ==
  LET at == {i \in 1..(Len(s) - 1) : s[i] = "{" /\ s[i + 1] = "{"}
  IN IF at = {} THEN 0 ELSE CHOOSE i \in at : \A j \in at : i <= j

\* s has a "}}" that starts at or after position from.
HasCloserFrom(s, from) ==
  \E j \in from..(Len(s) - 1) : s[j] = "}" /\ s[j + 1] = "}"

\* C24: Malformed markers become literal text. When the input left to parse
\* has an opener and no closer after it, parse emits all of it, opener
\* included, as one literal segment and returns; an empty marker is emitted
\* as the literal segment "{{}}" and never as an interpolation.
C24_MalformedMarkersLiteral ==
  [][(last.op = "parse" /\ last'.op = "parse")
       => LET s == last.rest
              p == FirstOpener(s)
              new == SubSeq(last'.segs, Len(last.segs) + 1, Len(last'.segs))
          IN /\ (p > 0 /\ ~HasCloserFrom(s, p + 2))
                  => (last'.bool /\ new = <<parsed(Str(s), "")>>)
             /\ (p > 0 /\ Len(s) >= p + 3 /\ s[p + 2] = "}" /\ s[p + 3] = "}")
                  => /\ new # <<>>
                     /\ new[Len(new)] = parsed("{{}}", "")
                     /\ \A i \in 1..Len(new) : new[i].interp = ""]_vars

\* C24 witness: parse returned over an empty marker followed by a key and an
\* opener that is never closed.
C24_Witness ==
  /\ last.op = "parse" /\ last.bool
  /\ last.tmpl = <<"{", "{", "}", "}", "k", "{", "{">>
  /\ last.segs = <<parsed("{{}}", ""), parsed("k{{", "")>>

\* Where the first c of s stands, 0 when s has none.
FirstIndexOf(s, c) ==
  LET at == {i \in 1..Len(s) : s[i] = c}
  IN IF at = {} THEN 0 ELSE CHOOSE i \in at : \A j \in at : i <= j

\* C25: Marker body parsing. A template that is one marker whose body has a
\* "|" parses to one interpolation segment whose lookup key is the part of
\* the body before the first "|", trimmed (and not empty); a body without "|"
\* parses to its trimmed text as the key.
C25_MarkerBodySplit ==
  LET body == MarkerBody(last.tmpl)
      bar == FirstIndexOf(body, "|")
      key == IF bar = 0 THEN body ELSE SubSeq(body, 1, bar - 1)
  IN (/\ last.op = "parse" /\ last.bool
      /\ body # <<"}">>
      /\ TrimSpace(key) # <<>>)
       => /\ Len(last.segs) = 1
          /\ last.segs[1].literal = ""
          /\ last.segs[1].interp = Str(TrimSpace(key))

\* The last option of the kind in the list.
LastOfKind(opts, kind) ==
  CHOOSE i \in OptionsOfKind(opts, kind) : \A j \in OptionsOfKind(opts, kind) : i >= j

RECURSIVE RenderFirstMatch(_, _)
\* The segments rendered with every key that has rows replaced by the value
\* of the first of them.
RenderFirstMatch(ps, table) ==
  IF ps = <<>> THEN ""
  ELSE LET seg == Head(ps)
           rows == {i \in 1..Len(table) : table[i][1] = seg.interp}
           value == IF seg.interp = "" THEN ""
                    ELSE IF rows = {} THEN "{{" \o seg.interp \o "}}"
                    ELSE table[CHOOSE i \in rows : \A j \in rows : i <= j][2]
       IN seg.literal \o value \o RenderFirstMatch(Tail(ps), table)

\* C26: First match wins in Render. A record built by Error with a templated
\* message has every marker whose key its details hold, once or more often,
\* replaced by the value of the first detail declared with that key, at every
\* occurrence of the marker.
C26_FirstMatchWins ==
  (last.op = "Error" /\ last.ok /\ OptionsOfKind(last.opts, "template") # {})
    => heap[last.addr].msg
         = RenderFirstMatch(parse(last.opts[LastOfKind(last.opts, "template")].tmpl),
                            heap[last.addr].details)

\* C26 witness: a key declared twice with different values, and a template
\* that names it twice.
C26_Witness ==
  /\ last.op = "Error" /\ last.ok
  /\ last.opts = <<OptDetail("k", "1"), OptDetail("k", "2"),
                   OptTemplate(<<"{", "{", "k", "}", "}", "{", "{", "k", "}", "}">>)>>
  /\ heap[last.addr].msg = "11"

\* C23: Display string format. Whenever SynthesizeString(v) returns, its
\* result is the code, then ": " and the message when the message is not
\* empty, then ": caused by: " and the cause's own Error() string when a cause
\* is present; no detail key or value is added.
C23_DisplayStringFormat ==
  (last.op = "SynthesizeString" /\ last.ok)
    => LET o == heap[last.a]
       IN last.str
            = o.code
                \o (IF o.msg # "" THEN ": " \o o.msg ELSE "")
                \o (IF o.cause # Nil
                    THEN ": caused by: " \o ErrorString(heap, o.cause).val
                    ELSE "")

\* C23 witness: the display string of a record with a message, a detail and
\* a cause that has a message of its own.
C23_Witness ==
  /\ last.op = "SynthesizeString" /\ last.ok
  /\ heap[last.a].details = <<<<"k", "1">>>>
  /\ last.str = "a: m: caused by: a: m"

RECURSIVE SameContent(_, _, _)
\* x and r show the same code, message and details through the accessors,
\* and so do their causes, down to an absent cause on both sides.
SameContent(h, x, r) ==
  IF x = Nil \/ r = Nil THEN x = r
  ELSE /\ Code(h, r) = Code(h, x)
       /\ Message(h, r) = Message(h, x)
       /\ Details(h, r) = Details(h, x)
       /\ SameContent(h, Cause(h, x), Cause(h, r))

RECURSIVE ChainLeaves(_, _, _)
\* Following the cause relation from a leaves the records of h within n
\* steps.
ChainLeaves(h, a, n) ==
  IF a \notin Addrs(h) THEN TRUE
  ELSE IF n = 0 THEN FALSE
  ELSE ChainLeaves(h, h[a].cause, n - 1)

\* No record of h is reachable from itself: a chain of distinct records has
\* at most Len(h) of them.
Acyclic(h) == \A a \in Addrs(h) : ChainLeaves(h, a, Len(h))

\* C28: Acyclic cause chains. After any sequence of Error with WithCause,
\* Errorf with a wrap verb, Standardize and Decode, no record is reachable
\* from itself through the cause relation: following the causes of any
\* record comes to an end after finitely many steps.
C28_AcyclicCauseChains == Acyclic(heap) /\ Acyclic(last.h)

\* C28 witness: a record decoded from the encoding of a record built by
\* Errorf with a wrap verb, with a decoded cause of its own.
C28_Witness ==
  /\ last.op = "DecodeInto" /\ last.ok
  /\ HasKey(last.json, "cause")
  /\ heap[last.addr].cause \in Addrs(heap)
  /\ heap[last.addr].cause # last.addr

\* The record at a has no record as its cause.
NoCauseRecord(h, a) == h[a].cause \notin Addrs(h)

\* C30: A decoded record without a cause has no cause. After a decode of a
\* wire object with no "cause" member the record's cause is nil; the display
\* string of a record without a cause record is "code[: message]" and does
\* not fail, errors.Is on it returns, and its encoding has no "cause" member.
C30_DecodedWithoutCause ==
  /\ (last.op = "DecodeInto" /\ last.ok /\ ~HasKey(last.json, "cause"))
       => heap[last.addr].cause = Nil
  /\ (last.op = "SynthesizeString" /\ NoCauseRecord(heap, last.a))
       => /\ last.ok
          /\ last.str = heap[last.a].code
                          \o (IF heap[last.a].msg # "" THEN ": " \o heap[last.a].msg
                              ELSE "")
  /\ (last.op = "errors.Is" /\ NoCauseRecord(heap, last.a)) => last.ok
  /\ (last.op = "ToJSON" /\ NoCauseRecord(heap, last.a))
       => (last.ok /\ ~HasKey(last.json, "cause"))

\* C29: Read-only operations leave records unchanged. No step changes the
\* code, message, details or cause of a record that exists, be it read by an
\* accessor, rendered, compared, encoded, standardized or used as a cause; no
\* iteration of a rendering changes a segment of the template it shares; and
\* each of two calls of Error that share one templated-message option gets
\* the message rendered against its own details, however their iterations
\* interleave.
C29_ReadOnlyOperations ==
  [][/\ \A a \in Addrs(heap) :
          /\ a \in Addrs(heap') /\ heap'[a] = heap[a]
          /\ a \in Addrs(last'.h) => last'.h[a] = heap[a]
     /\ (last.op = "shared" /\ last'.op = "shared")
          => /\ last'.segs = last.segs
             /\ \A n \in {1, 2} :
                  last'.runs[n].done
                    => last'.runs[n].sb
                         = interpolate(parse(last'.tmpl), last'.runs[n].details)]_vars

\* C29 witness: both calls have assigned their messages, rendered from the
\* same template against different details.
C29_Witness ==
  /\ last.op = "shared"
  /\ last.runs[1].done /\ last.runs[2].done
  /\ last.runs[1].sb = "m 1 {{j}}"
  /\ last.runs[2].sb = "m 2 1"

====
